---- MODULE Spec2Model ----
(***************************************************************************)
(* Payment confirmation poller of js/script.js (pollPaymentStatus and the  *)
(* two outcome handlers), as a timed state machine.                        *)
(*                                                                         *)
(* One poll session is modelled from the moment initiatePayment has called *)
(* pollPaymentStatus(checkoutRequestId): the interval timer is armed, the  *)
(* pay button is disabled and the payment overlay is shown.  Time is a     *)
(* clock in milliseconds that advances in steps of half a poll interval;   *)
(* the interval callback runs when the clock reaches the timer's next fire *)
(* time, and the continuation of a callback (the code after `await fetch`) *)
(* runs when the response of its query is delivered, at any time up to     *)
(* MaxLatency after the query was issued.                                  *)
(***************************************************************************)
EXTENDS Integers, Sequences, FiniteSets, TLC

VARIABLES
    now,                \* clock, ms since pollPaymentStatus was called
    checkoutRequestId,  \* argument of pollPaymentStatus
    attempts,           \* `let attempts` of the closure
    pollTimer,          \* "active" | "cleared": the setInterval handle
    nextFire,           \* clock value of the next interval callback
    inflight,           \* attempts whose fetch has not settled yet
    queries,            \* log of status queries issued: [at, request_id]
    handled,            \* the response most recently delivered to a callback
    overlapped,         \* some tick fired while an earlier query was in flight
    calls,              \* log of handlePaymentSuccess/handlePaymentFailure calls
    cart,               \* "stored" | "removed": the 'cart' key of both storages
    overlayHidden,      \* #payment-overlay has class hidden
    payButtonDisabled,  \* #pay-button.disabled
    redirects,          \* pending setTimeout redirects of handlePaymentSuccess
    page,               \* "checkout" | "tracking": the document being shown
    \* The checkout page as a whole (SpecCheckout): any number of submissions,
    \* each poll session with a closure of its own.
    sessions,           \* closures of the pollPaymentStatus calls made so far
    checkouts,          \* POST /webhook/checkout requests awaiting a response
    submits,            \* number of checkout requests sent
    windowCheckoutRequestId,  \* window.checkoutRequestId
    cancelled,          \* sessions whose timer was active at a cancel click
    lastCheckout,       \* the checkout response most recently handled
    formError,          \* validation message raised by the last step: "none" | "phone" | "terms"
    \* The fetch call sites and their timeouts (SpecFetch).
    requests,           \* per call site: whether a fetch is pending, and when it was sent
    \* The quantity controls of the product page (SpecProduct).
    minOrderQuantity,   \* window.minOrderQuantity; 0 stands for undefined
    quantityInput,      \* #quantity-input.value
    moqWarningHidden,   \* #moq-warning has class hidden
    priceChecks,        \* quantities for which a price-check request was issued
    pricePending,       \* quantities whose price-check request has not settled
    qtyDisplay,         \* #qty-display.textContent; 0 before the first pricing
    \* The search box of the catalogue page (SpecSearch).
    searchInput,        \* #search-input.value
    searchQuery,        \* `let searchQuery`
    searchTimeout,      \* `let searchTimeout`: id of the timer set last; 0 is undefined
    searchTimers,       \* pending setTimeout timers of the input listener
    activeCategory,     \* `let activeCategory`
    inputEvents,        \* log of input events: [at, value]
    filterRuns          \* log of filterProducts calls: [at, query, by, timer]

pageVars == <<sessions, checkouts, submits, windowCheckoutRequestId, cancelled,
              lastCheckout, formError>>

productVars == <<minOrderQuantity, quantityInput, moqWarningHidden, priceChecks,
                 pricePending, qtyDisplay>>

searchVars == <<searchInput, searchQuery, searchTimeout, searchTimers,
                activeCategory, inputEvents, filterRuns>>

catalogVars == <<productVars, searchVars>>

vars == <<now, checkoutRequestId, attempts, pollTimer, nextFire, inflight,
          queries, handled, overlapped, calls, cart, overlayHidden,
          payButtonDisabled, redirects, page, pageVars, requests, catalogVars>>

----------------------------------------------------------------------------
(* Program constants *)

maxAttempts == 30

pollInterval == 2000

redirectDelay == 2000

TimeoutMessage == "Payment confirmation timeout. Please check your M-Pesa inbox."

DeclinedMessage == "Payment was declined"

CancelledMessage == "Payment was cancelled"

----------------------------------------------------------------------------
(* Bounds of the model *)

\* Granularity of the clock.
TimeStep == pollInterval \div 2

\* A query is answered (or fails) at most MaxLatencySteps clock steps after it
\* was issued.  With 3 steps (3000 ms) a response can arrive after the next
\* tick has fired, so two queries can be in flight together.
MaxLatencySteps == 3

MaxLatency == MaxLatencySteps * TimeStep

\* Cap of the attempt counter (never binding for the code as written: a
\* response handled with attempts >= maxAttempts clears the timer).
AttemptsCap == maxAttempts + MaxLatencySteps

RequestIds == {"abc123", "xyz"}

\* The fetch call sites of SpecFetch.
Sites == {"products", "checkout", "payment-status"}

\* A value of #quantity-input that parseInt does not parse: the empty string
\* or the text "NaN".
NotANumber == [kind |-> "other", n |-> 0]

\* The digits of the integer n as the value of an input element.
Numeral(n) == [kind |-> "int", n |-> n]

\* The product page has not been rendered.
NoProduct ==
    /\ minOrderQuantity = 0
    /\ quantityInput = NotANumber
    /\ moqWarningHidden = TRUE
    /\ priceChecks = {}
    /\ pricePending = {}
    /\ qtyDisplay = 0

\* The catalogue page as loaded: nothing typed into the search box.
NoSearch ==
    /\ searchInput = ""
    /\ searchQuery = ""
    /\ searchTimeout = 0
    /\ searchTimers = {}
    /\ activeCategory = "all"
    /\ inputEvents = <<>>
    /\ filterRuns = <<>>

\* A call site with no fetch pending.
NoRequest == [pending |-> FALSE, sentAt |-> 0]

----------------------------------------------------------------------------
(* Responses of GET /webhook/payment-status *)

NoData == [kind |-> "none", status |-> "none", error |-> "none", seq |-> 0]

\* What the k-th fetch can settle to: a rejected promise (network failure), a
\* non-2xx response, or a JSON body with a status field (possibly missing
\* ("none") or some other string, "PENDING" or "success") and, for FAILED, an
\* optional error text.
Responses(k) ==
    {[kind |-> "network", status |-> "none", error |-> "none", seq |-> k],
     [kind |-> "http", status |-> "none", error |-> "none", seq |-> k]}
    \cup {[kind |-> "json", status |-> s, error |-> "none", seq |-> k] :
            s \in {"SUCCESS", "CANCELLED", "PENDING", "success", "none"}}
    \cup {[kind |-> "json", status |-> "FAILED", error |-> e, seq |-> k] :
            e \in {"none", "", "Insufficient funds"}}

Classify_NoCancelled(r) ==
    IF r.kind # "json" THEN "catch"
    ELSE IF r.status = "SUCCESS" THEN "SUCCESS"
    ELSE IF r.status = "FAILED" THEN "FAILED"
    ELSE "continue"

Classify_ErrorIsFailure(r) ==
    IF r.kind # "json" THEN "FAILED"
    ELSE IF r.status = "SUCCESS" THEN "SUCCESS"
    ELSE IF r.status = "FAILED" THEN "FAILED"
    ELSE IF r.status = "CANCELLED" THEN "CANCELLED"
    ELSE "continue"

Classify_IgnoreCase(r) ==
    IF r.kind # "json" THEN "catch"
    ELSE IF r.status \in {"SUCCESS", "success"} THEN "SUCCESS"
    ELSE IF r.status = "FAILED" THEN "FAILED"
    ELSE IF r.status = "CANCELLED" THEN "CANCELLED"
    ELSE "continue"

\* The branch of the interval callback a settled fetch takes.
Classify(r) ==
    IF r.kind # "json" THEN "catch"
    ELSE IF r.status = "SUCCESS" THEN "SUCCESS"
    ELSE IF r.status = "FAILED" THEN "FAILED"
    ELSE IF r.status = "CANCELLED" THEN "CANCELLED"
    ELSE "continue"

FailureMessage_AlwaysDefault(r) == DeclinedMessage

\* data.error || 'Payment was declined'
FailureMessage(r) ==
    IF r.error = "none" \/ r.error = "" THEN DeclinedMessage ELSE r.error

BudgetExhausted_Never(n) == FALSE

BudgetExhausted_OffByOne(n) == n >= maxAttempts - 1

BudgetExhausted_Strict(n) == n > maxAttempts

BudgetExhausted_Equal(n) == n = maxAttempts

\* if (attempts >= maxAttempts)
BudgetExhausted(n) == n >= maxAttempts

NextFire_HalfInterval(t) == t + pollInterval \div 2

\* setInterval(cb, pollInterval): the callback first runs one interval after
\* the call and then every interval.
NextFire(t) == t + pollInterval

----------------------------------------------------------------------------
(* Outcome handlers.  Their DOM elements are taken to exist, so the catch    *)
(* blocks of the handlers (lines 1467-1470, 1503-1506) are never entered.    *)

\* One entry of the log of handler calls: the handler and its argument, and
\* where the call came from (the branch of the interval callback making it,
\* the attempt whose continuation it is, the clock and the counter).
CallRecord(fn, msg, data, k, branch) ==
    [fn |-> fn, msg |-> msg, data |-> data, at |-> now, tick |-> k,
     attempts |-> attempts, branch |-> branch]

handlePaymentSuccess(data, k, branch) ==
    /\ cart' = "removed"
    /\ overlayHidden' = TRUE
    /\ redirects' = redirects \cup {now + redirectDelay}
    /\ calls' = Append(calls, CallRecord("handlePaymentSuccess", "", data, k, branch))
    /\ UNCHANGED payButtonDisabled

handlePaymentFailure_ClearsCart(errorMessage, k, branch) ==
    /\ cart' = "removed"
    /\ overlayHidden' = TRUE
    /\ payButtonDisabled' = FALSE
    /\ calls' = Append(calls, CallRecord("handlePaymentFailure", errorMessage,
                                         NoData, k, branch))
    /\ UNCHANGED redirects

handlePaymentFailure(errorMessage, k, branch) ==
    /\ overlayHidden' = TRUE
    /\ payButtonDisabled' = FALSE
    /\ calls' = Append(calls, CallRecord("handlePaymentFailure", errorMessage,
                                         NoData, k, branch))
    /\ UNCHANGED <<cart, redirects>>

----------------------------------------------------------------------------
(* The state after pollPaymentStatus(checkoutRequestId) returned *)

Init ==
    /\ now = 0
    /\ checkoutRequestId \in RequestIds
    /\ attempts = 0
    /\ pollTimer = "active"
    /\ nextFire = NextFire(0)
    /\ inflight = {}
    /\ queries = <<>>
    /\ handled = NoData
    /\ overlapped = FALSE
    /\ calls = <<>>
    /\ cart = "stored"
    /\ overlayHidden = FALSE
    /\ payButtonDisabled = TRUE
    /\ redirects = {}
    /\ page = "checkout"
    \* initiatePayment has sent one checkout request and stored its id; the
    \* session lives in the closure variables above.
    /\ sessions = <<>>
    /\ checkouts = {}
    /\ submits = 1
    /\ windowCheckoutRequestId = checkoutRequestId
    /\ cancelled = {}
    /\ lastCheckout = [kind |-> "json", checkout_request_id |-> checkoutRequestId,
                       seq |-> 1]
    /\ formError = "none"
    /\ requests = [site \in Sites |-> NoRequest]
    /\ NoProduct
    /\ NoSearch

Tick_SkipWhenInFlight ==
    /\ page = "checkout"
    /\ pollTimer = "active"
    /\ now = nextFire
    /\ attempts < AttemptsCap
    /\ nextFire' = NextFire(now)
    /\ IF inflight = {}
       THEN /\ attempts' = attempts + 1
            /\ inflight' = {attempts + 1}
            /\ queries' = Append(queries, [at |-> now,
                                           request_id |-> checkoutRequestId])
       ELSE UNCHANGED <<attempts, inflight, queries>>
    /\ UNCHANGED <<now, checkoutRequestId, pollTimer, handled, overlapped,
                   calls, cart, overlayHidden, payButtonDisabled, redirects,
                   page, pageVars, requests, catalogVars>>

\* The interval callback up to its `await fetch(...)`.
Tick ==
    /\ page = "checkout"
    /\ pollTimer = "active"
    /\ now = nextFire
    /\ attempts < AttemptsCap
    /\ attempts' = attempts + 1
    /\ inflight' = inflight \cup {attempts + 1}
    /\ queries' = Append(queries, [at |-> now, request_id |-> checkoutRequestId])
    /\ overlapped' = (overlapped \/ inflight # {})
    /\ nextFire' = NextFire(now)
    /\ UNCHANGED <<now, checkoutRequestId, pollTimer, handled, calls, cart,
                   overlayHidden, payButtonDisabled, redirects, page,
                   pageVars, requests, catalogVars>>

\* The rest of the interval callback of attempt k, run when its fetch settles
\* to r.
Respond(k, r) ==
    /\ page = "checkout"
    /\ k \in inflight
    /\ inflight' = inflight \ {k}
    /\ handled' = r
    /\ CASE Classify(r) = "SUCCESS" ->
              /\ pollTimer' = "cleared"
              /\ handlePaymentSuccess(r, k, "SUCCESS")
         [] Classify(r) = "FAILED" ->
              /\ pollTimer' = "cleared"
              /\ handlePaymentFailure(FailureMessage(r), k, "FAILED")
         [] Classify(r) = "CANCELLED" ->
              /\ pollTimer' = "cleared"
              /\ handlePaymentFailure(CancelledMessage, k, "CANCELLED")
         [] OTHER ->
              IF BudgetExhausted(attempts)
              THEN /\ pollTimer' = "cleared"
                   /\ handlePaymentFailure(TimeoutMessage, k, "TIMEOUT")
              ELSE UNCHANGED <<pollTimer, calls, cart, overlayHidden,
                               payButtonDisabled, redirects>>
    /\ UNCHANGED <<now, checkoutRequestId, attempts, nextFire, queries,
                   overlapped, page, pageVars, requests, catalogVars>>

Settle == \E k \in inflight : \E r \in Responses(k) : Respond(k, r)

\* The setTimeout of handlePaymentSuccess: window.location.href is assigned,
\* the checkout document and everything it scheduled are gone.
Redirect ==
    /\ page = "checkout"
    /\ now \in redirects
    /\ page' = "tracking"
    /\ pollTimer' = "cleared"
    /\ inflight' = {}
    /\ redirects' = {}
    /\ UNCHANGED <<now, checkoutRequestId, attempts, nextFire, queries,
                   handled, overlapped, calls, cart, overlayHidden,
                   payButtonDisabled, pageVars, requests, catalogVars>>

\* Time passes: no timer is due and no query exceeds the latency bound.
Advance ==
    /\ page = "checkout"
    /\ pollTimer = "active" \/ inflight # {} \/ redirects # {}
    /\ pollTimer = "active" => now < nextFire
    /\ \A t \in redirects : now < t
    /\ \A q \in inflight : now + TimeStep - queries[q].at <= MaxLatency
    /\ now' = now + TimeStep
    /\ UNCHANGED <<checkoutRequestId, attempts, pollTimer, nextFire, inflight,
                   queries, handled, overlapped, calls, cart, overlayHidden,
                   payButtonDisabled, redirects, page, pageVars, requests, catalogVars>>

Next == Tick \/ Settle \/ Redirect \/ Advance

Spec == Init /\ [][Next]_vars

\* A session during an outage: every status query fails (the fetch rejects
\* or the response is not 2xx).
SettleError ==
    \E k \in inflight : \E r \in {x \in Responses(k) : x.kind # "json"} :
        Respond(k, r)

NextOutage == Tick \/ SettleError \/ Advance

SpecOutage == Init /\ [][NextOutage]_vars

\* The timer keeps ticking, time passes, and every query issued settles.
FairSpec == Spec /\ WF_vars(Tick) /\ WF_vars(Settle) /\ WF_vars(Redirect) /\ WF_vars(Advance)

----------------------------------------------------------------------------
(* The checkout page: initiatePayment, the cancel button and the poll       *)
(* sessions they start, from the moment initializeCheckout has rendered a   *)
(* non-empty cart.  The closure variables of the single session above are   *)
(* not used here; each call of pollPaymentStatus has its closure in         *)
(* `sessions`, and a handler call is logged with tick = <<session, attempt>>.*)

\* The identifiers the payment service gives the checkout requests of one
\* visit of the page, in the order of the requests.
CheckoutIds == <<"ws_CO_1", "ws_CO_2">>

\* Valid checkout requests sent in one visit of the page.
MaxSubmits == Len(CheckoutIds)

\* The page is followed for HorizonSteps clock steps after it was loaded.
HorizonSteps == 4

\* Status queries issued in one visit of the page.
MaxQueries == 1

Digits == {"0", "1", "2", "3", "4", "5", "6", "7", "8", "9"}

\* Values of #phone-input, as sequences of characters.
PhoneInputs ==
    {<<"7", "1", "2", "3", "4", "5", "6", "7", "8">>,
     <<" ", "7", "1", "2", "3", "4", "5", "6", "7", "8", " ">>,
     <<"7", "1", "2", "3", "4", "5", "6", "7">>,
     <<"7", "1", "2", "3", "4", "5", "6", "7", "8", "9">>,
     <<"7", "1", "2", "3", "4", "5", "6", "7", "x">>,
     <<>>}

RECURSIVE TrimStart(_)
TrimStart(p) == IF p # <<>> /\ Head(p) = " " THEN TrimStart(Tail(p)) ELSE p

RECURSIVE TrimEnd(_)
TrimEnd(p) ==
    IF p # <<>> /\ p[Len(p)] = " " THEN TrimEnd(SubSeq(p, 1, Len(p) - 1)) ELSE p

\* String.prototype.trim
Trim(p) == TrimEnd(TrimStart(p))

validatePhoneNumber_DigitsOnly(phone) ==
    \A i \in 1..Len(phone) : phone[i] \in Digits

\* /^[0-9]{9}$/.test(phone)
validatePhoneNumber(phone) ==
    Len(phone) = 9 /\ \A i \in 1..Len(phone) : phone[i] \in Digits

\* `254${phone}`
formatPhoneNumber(phone) == <<"2", "5", "4">> \o phone

NoCheckout == [kind |-> "none", checkout_request_id |-> "none", seq |-> 0]

\* The identifier the payment service gives the c-th checkout request.
CheckoutRequestIdOf(c) == CheckoutIds[c]

\* What the c-th checkout fetch can settle to: a rejected promise, a non-2xx
\* response, a body that is not JSON, or a JSON body whose
\* checkout_request_id is missing ("none"), empty or an identifier.
CheckoutResponses(c) ==
    {[kind |-> k, checkout_request_id |-> "none", seq |-> c] :
        k \in {"network", "http", "badjson"}}
    \cup {[kind |-> "json", checkout_request_id |-> id, seq |-> c] :
            id \in {CheckoutRequestIdOf(c), "none", ""}}

\* The status responses followed on the checkout page: one of each kind.
SessionResponses(k) ==
    {r \in Responses(k) : r.kind # "http" /\ r.status # "success"
                             /\ r.error \in {"none", "Insufficient funds"}
                             /\ (r.status = "none" => r.kind = "network")}

CheckoutAccepted_NoIdCheck(r) == r.kind = "json"

\* response.ok, response.json() parsed and data.checkout_request_id truthy.
CheckoutAccepted(r) ==
    r.kind = "json" /\ r.checkout_request_id \notin {"none", ""}

\* The closure created by pollPaymentStatus(id) and its setInterval.
pollPaymentStatus(id) ==
    [requestId |-> id, attempts |-> 0, timer |-> "active",
     nextFire |-> NextFire(now), inflight |-> {}]

QueryRequestId_Window(s) == windowCheckoutRequestId

\* request_id=${checkoutRequestId}: the parameter of the session's closure.
QueryRequestId(s) == sessions[s].requestId

SessionIds == 1..Len(sessions)

ActiveSessions == {s \in SessionIds : sessions[s].timer = "active"}

\* The clock value at which attempt k of session s was issued.
IssuedAt(s, k) ==
    LET i == CHOOSE j \in 1..Len(queries) :
                 queries[j].session = s /\ queries[j].attempt = k
    IN queries[i].at

InitCheckout ==
    /\ now = 0
    /\ checkoutRequestId = "none"
    /\ attempts = 0
    /\ pollTimer = "cleared"
    /\ nextFire = 0
    /\ inflight = {}
    /\ queries = <<>>
    /\ handled = NoData
    /\ overlapped = FALSE
    /\ calls = <<>>
    /\ cart = "stored"
    /\ overlayHidden = TRUE
    /\ payButtonDisabled = FALSE
    /\ redirects = {}
    /\ page = "checkout"
    /\ sessions = <<>>
    /\ checkouts = {}
    /\ submits = 0
    /\ windowCheckoutRequestId = "none"
    /\ cancelled = {}
    /\ lastCheckout = NoCheckout
    /\ formError = "none"
    /\ requests = [site \in Sites |-> NoRequest]
    /\ NoProduct
    /\ NoSearch

closureVars == <<checkoutRequestId, attempts, pollTimer, nextFire, inflight,
                 handled, overlapped>>

\* The submit listener: initiatePayment up to its `await fetch(...)`.
Submit(phoneValue, termsChecked) ==
    /\ page = "checkout"
    /\ ~payButtonDisabled
    /\ LET phone == Trim(phoneValue) IN
       IF ~validatePhoneNumber(phone)
       THEN /\ formError' = "phone"
            /\ UNCHANGED <<payButtonDisabled, overlayHidden, checkouts, submits>>
       ELSE IF ~termsChecked
       THEN /\ formError' = "terms"
            /\ UNCHANGED <<payButtonDisabled, overlayHidden, checkouts, submits>>
       ELSE /\ submits < MaxSubmits
            /\ payButtonDisabled' = TRUE
            /\ overlayHidden' = FALSE
            /\ submits' = submits + 1
            /\ checkouts' = checkouts \cup
                   {[seq |-> submits + 1, sentAt |-> now,
                     phone_number |-> formatPhoneNumber(phone)]}
            /\ formError' = "none"
    /\ lastCheckout' = NoCheckout
    /\ UNCHANGED <<now, closureVars, queries, calls, cart, redirects, page,
                   sessions, windowCheckoutRequestId, cancelled,
                   requests, catalogVars>>

\* The rest of initiatePayment, run when the checkout fetch c settles to r.
CheckoutSettle(c, r) ==
    /\ page = "checkout"
    /\ c \in checkouts
    /\ checkouts' = checkouts \ {c}
    /\ lastCheckout' = r
    /\ IF CheckoutAccepted(r)
       THEN /\ windowCheckoutRequestId' = r.checkout_request_id
            /\ sessions' = Append(sessions, pollPaymentStatus(r.checkout_request_id))
            /\ UNCHANGED <<overlayHidden, payButtonDisabled>>
       ELSE /\ overlayHidden' = TRUE
            /\ payButtonDisabled' = FALSE
            /\ UNCHANGED <<sessions, windowCheckoutRequestId>>
    /\ formError' = "none"
    /\ UNCHANGED <<now, closureVars, queries, calls, cart, redirects, page,
                   submits, cancelled, requests, catalogVars>>

\* The click listener of #cancel-payment-btn (shown in the payment overlay).
CancelClick ==
    /\ page = "checkout"
    /\ ~overlayHidden
    /\ overlayHidden' = TRUE
    /\ payButtonDisabled' = FALSE
    /\ cancelled' = cancelled \cup ActiveSessions
    /\ lastCheckout' = NoCheckout
    /\ formError' = "none"
    /\ UNCHANGED <<now, closureVars, queries, calls, cart, redirects, page,
                   sessions, checkouts, submits, windowCheckoutRequestId, requests, catalogVars>>

\* The interval callback of session s up to its `await fetch(...)`.
SessionTick(s) ==
    /\ page = "checkout"
    /\ s \in ActiveSessions
    /\ now = sessions[s].nextFire
    /\ Len(queries) < MaxQueries
    /\ sessions' = [sessions EXCEPT ![s].attempts = @ + 1,
                                    ![s].inflight = @ \cup {sessions[s].attempts + 1},
                                    ![s].nextFire = NextFire(now)]
    /\ queries' = Append(queries, [at |-> now, request_id |-> QueryRequestId(s),
                                   session |-> s,
                                   attempt |-> sessions[s].attempts + 1])
    /\ lastCheckout' = NoCheckout
    /\ formError' = "none"
    /\ UNCHANGED <<now, closureVars, calls, cart, overlayHidden,
                   payButtonDisabled, redirects, page, checkouts, submits,
                   windowCheckoutRequestId, cancelled,
                   requests, catalogVars>>

\* The rest of the interval callback of attempt k of session s.
SessionRespond(s, k, r) ==
    /\ page = "checkout"
    /\ s \in SessionIds
    /\ k \in sessions[s].inflight
    /\ CASE Classify(r) = "SUCCESS" ->
              /\ sessions' = [sessions EXCEPT ![s].inflight = @ \ {k},
                                              ![s].timer = "cleared"]
              /\ handlePaymentSuccess(r, <<s, k>>, "SUCCESS")
         [] Classify(r) = "FAILED" ->
              /\ sessions' = [sessions EXCEPT ![s].inflight = @ \ {k},
                                              ![s].timer = "cleared"]
              /\ handlePaymentFailure(FailureMessage(r), <<s, k>>, "FAILED")
         [] Classify(r) = "CANCELLED" ->
              /\ sessions' = [sessions EXCEPT ![s].inflight = @ \ {k},
                                              ![s].timer = "cleared"]
              /\ handlePaymentFailure(CancelledMessage, <<s, k>>, "CANCELLED")
         [] OTHER ->
              IF BudgetExhausted(sessions[s].attempts)
              THEN /\ sessions' = [sessions EXCEPT ![s].inflight = @ \ {k},
                                                   ![s].timer = "cleared"]
                   /\ handlePaymentFailure(TimeoutMessage, <<s, k>>, "TIMEOUT")
              ELSE /\ sessions' = [sessions EXCEPT ![s].inflight = @ \ {k}]
                   /\ UNCHANGED <<calls, cart, overlayHidden,
                                  payButtonDisabled, redirects>>
    /\ lastCheckout' = NoCheckout
    /\ formError' = "none"
    /\ UNCHANGED <<now, closureVars, queries, page, checkouts, submits,
                   windowCheckoutRequestId, cancelled,
                   requests, catalogVars>>

\* The redirect of handlePaymentSuccess: the checkout document, its timers
\* and its pending fetches are gone.
CheckoutRedirect ==
    /\ page = "checkout"
    /\ now \in redirects
    /\ page' = "tracking"
    /\ sessions' = [s \in SessionIds |->
                      [sessions[s] EXCEPT !.timer = "cleared", !.inflight = {}]]
    /\ checkouts' = {}
    /\ redirects' = {}
    /\ lastCheckout' = NoCheckout
    /\ formError' = "none"
    /\ UNCHANGED <<now, closureVars, queries, calls, cart, overlayHidden,
                   payButtonDisabled, submits, windowCheckoutRequestId,
                   cancelled, requests, catalogVars>>

\* Time passes on the checkout page: no timer is due and no request exceeds
\* the latency bound.
AdvanceCheckout ==
    /\ page = "checkout"
    /\ now < HorizonSteps * TimeStep
    /\ \A s \in ActiveSessions : now < sessions[s].nextFire
    /\ \A t \in redirects : now < t
    /\ \A s \in SessionIds : \A k \in sessions[s].inflight :
          now + TimeStep - IssuedAt(s, k) <= MaxLatency
    /\ \A c \in checkouts : now + TimeStep - c.sentAt <= MaxLatency
    /\ now' = now + TimeStep
    /\ lastCheckout' = NoCheckout
    /\ formError' = "none"
    /\ UNCHANGED <<closureVars, queries, calls, cart, overlayHidden,
                   payButtonDisabled, redirects, page, sessions, checkouts,
                   submits, windowCheckoutRequestId, cancelled, requests, catalogVars>>

NextCheckout ==
    \/ \E p \in PhoneInputs : \E t \in BOOLEAN : Submit(p, t)
    \/ \E c \in checkouts : \E r \in CheckoutResponses(c.seq) : CheckoutSettle(c, r)
    \/ CancelClick
    \/ \E s \in SessionIds : SessionTick(s)
    \/ \E s \in SessionIds : \E k \in sessions[s].inflight :
          \E r \in SessionResponses(k) : SessionRespond(s, k, r)
    \/ CheckoutRedirect
    \/ AdvanceCheckout

SpecCheckout == InitCheckout /\ [][NextCheckout]_vars

----------------------------------------------------------------------------
(* The outbound requests of the page, one call site each for fetchProducts, *)
(* the checkout request of initiatePayment and the status query of          *)
(* pollPaymentStatus, followed on a clock of their own.                     *)

\* CONFIG.TIMEOUT_MS
TIMEOUT_MS == 15000

\* Requests are observed three times per timeout period.
FetchStep == TIMEOUT_MS \div 3

\* The requests are followed for FetchHorizonSteps clock steps.
FetchHorizonSteps == 5

\* The call sites that pass an AbortController signal to fetch and arm
\* setTimeout(() => controller.abort(), CONFIG.TIMEOUT_MS).
HasAbortTimer(site) == site = "products"

InitFetch == InitCheckout

fetchFrame == <<closureVars, queries, calls, cart, overlayHidden,
                payButtonDisabled, redirects, page, pageVars, catalogVars>>

\* fetch(...) at the call site.
SendRequest(site) ==
    /\ ~requests[site].pending
    /\ requests' = [requests EXCEPT ![site] = [pending |-> TRUE, sentAt |-> now]]
    /\ UNCHANGED <<now, fetchFrame>>

\* The promise of the fetch settles: a response or a network error.
RequestSettles(site) ==
    /\ requests[site].pending
    /\ requests' = [requests EXCEPT ![site] = NoRequest]
    /\ UNCHANGED <<now, fetchFrame>>

\* controller.abort(): the fetch rejects with an AbortError and the catch
\* block of the call site handles it.
RequestAborts(site) ==
    /\ HasAbortTimer(site)
    /\ requests[site].pending
    /\ now = requests[site].sentAt + TIMEOUT_MS
    /\ requests' = [requests EXCEPT ![site] = NoRequest]
    /\ UNCHANGED <<now, fetchFrame>>

\* Time passes: no abort timer is due.
AdvanceFetch ==
    /\ now < FetchHorizonSteps * FetchStep
    /\ \A site \in Sites :
          HasAbortTimer(site) /\ requests[site].pending
              => now < requests[site].sentAt + TIMEOUT_MS
    /\ now' = now + FetchStep
    /\ UNCHANGED <<requests, fetchFrame>>

NextFetch ==
    \/ \E site \in Sites : SendRequest(site)
    \/ \E site \in Sites : RequestSettles(site)
    \/ \E site \in Sites : RequestAborts(site)
    \/ AdvanceFetch

SpecFetch == InitFetch /\ [][NextFetch]_vars


----------------------------------------------------------------------------
(* The quantity controls of the product page: the change listener of        *)
(* #quantity-input, the increase and decrease buttons and updatePricing,    *)
(* from the moment initializeProductDetail has rendered the product.  Of    *)
(* the price display only #qty-display is followed.                         *)

\* Largest quantity typed or reached with the increase button.
MaxQuantity == 4

\* Largest minimum order quantity of a product.
MaxMoq == 3

\* product.moq as delivered by the product service; 0 stands for a missing
\* or zero field.
ProductMoqs == 0..MaxMoq

\* What the user can leave in #quantity-input before the change event.
TypedQuantities == {NotANumber} \cup {Numeral(n) : n \in -1..MaxQuantity}

\* x || 1 for a number x, with 0 standing for undefined as well.
OrOne(x) == IF x = 0 THEN 1 ELSE x

\* window.minOrderQuantity || 1
EffectiveMoq == OrOne(minOrderQuantity)

\* parseInt(value) || 1: NaN and 0 are falsy.
ParseQuantity(value) == IF value.kind = "int" THEN OrOne(value.n) ELSE 1

\* The effect of updatePricing(productId, quantity) up to its await; the
\* request is issued by fetchPricingCalculation unless quantity < 1.
updatePricing(quantity) ==
    IF quantity < EffectiveMoq
    THEN /\ moqWarningHidden' = FALSE
         /\ UNCHANGED <<priceChecks, pricePending>>
    ELSE /\ moqWarningHidden' = TRUE
         /\ IF quantity < 1
            THEN UNCHANGED <<priceChecks, pricePending>>
            ELSE /\ priceChecks' = priceChecks \cup {quantity}
                 /\ pricePending' = pricePending \cup {quantity}

\* renderProductDetails(product) followed by updatePricing(productId, 1).
InitProduct ==
    /\ now = 0
    /\ checkoutRequestId = "none"
    /\ attempts = 0
    /\ pollTimer = "cleared"
    /\ nextFire = 0
    /\ inflight = {}
    /\ queries = <<>>
    /\ handled = NoData
    /\ overlapped = FALSE
    /\ calls = <<>>
    /\ cart = "stored"
    /\ overlayHidden = TRUE
    /\ payButtonDisabled = FALSE
    /\ redirects = {}
    /\ page = "product"
    /\ sessions = <<>>
    /\ checkouts = {}
    /\ submits = 0
    /\ windowCheckoutRequestId = "none"
    /\ cancelled = {}
    /\ lastCheckout = NoCheckout
    /\ formError = "none"
    /\ requests = [site \in Sites |-> NoRequest]
    /\ NoSearch
    /\ \E moq \in ProductMoqs :
          /\ minOrderQuantity = OrOne(moq)
          /\ quantityInput = Numeral(OrOne(moq))
          /\ moqWarningHidden = (OrOne(moq) <= 1)
          /\ priceChecks = IF OrOne(moq) <= 1 THEN {1} ELSE {}
          /\ pricePending = IF OrOne(moq) <= 1 THEN {1} ELSE {}
    /\ qtyDisplay = 0

productFrame == <<now, closureVars, queries, calls, cart, overlayHidden,
                  payButtonDisabled, redirects, page, pageVars, requests,
                  searchVars, minOrderQuantity>>

\* The change listener of #quantity-input, run on the value the input holds.
QuantityChanged(value) ==
    LET quantity == ParseQuantity(value) IN
    IF quantity < EffectiveMoq
    THEN /\ quantityInput' = Numeral(EffectiveMoq)
         /\ updatePricing(EffectiveMoq)
    ELSE /\ quantityInput' = value
         /\ updatePricing(quantity)

\* The user edits #quantity-input and leaves it: a change event.
TypeQuantity(value) ==
    /\ page = "product"
    /\ QuantityChanged(value)
    /\ UNCHANGED <<productFrame, qtyDisplay>>

\* The click listener of #qty-increase: parseInt(input.value) + 1, NaN for a
\* value that does not parse, then a change event.
QtyIncrease ==
    /\ page = "product"
    /\ quantityInput.kind = "int" => quantityInput.n < MaxQuantity
    /\ QuantityChanged(IF quantityInput.kind = "int"
                       THEN Numeral(quantityInput.n + 1) ELSE NotANumber)
    /\ UNCHANGED <<productFrame, qtyDisplay>>

\* The click listener of #qty-decrease: Math.max(moq, parseInt(input.value) - 1),
\* NaN for a value that does not parse, then a change event.
QtyDecrease ==
    /\ page = "product"
    /\ QuantityChanged(IF quantityInput.kind = "int"
                       THEN Numeral(IF quantityInput.n - 1 > EffectiveMoq
                                    THEN quantityInput.n - 1 ELSE EffectiveMoq)
                       ELSE NotANumber)
    /\ UNCHANGED <<productFrame, qtyDisplay>>

\* The rest of updatePricing when the price-check request for quantity q
\* settles: the display is updated unless the request failed.
PriceSettles(q, ok) ==
    /\ page = "product"
    /\ q \in pricePending
    /\ pricePending' = pricePending \ {q}
    /\ qtyDisplay' = IF ok THEN q ELSE qtyDisplay
    /\ UNCHANGED <<productFrame, quantityInput, moqWarningHidden, priceChecks>>

NextProduct ==
    \/ \E value \in TypedQuantities : TypeQuantity(value)
    \/ QtyIncrease
    \/ QtyDecrease
    \/ \E q \in pricePending : \E ok \in BOOLEAN : PriceSettles(q, ok)

SpecProduct == InitProduct /\ [][NextProduct]_vars

----------------------------------------------------------------------------
(* The search box and the category buttons of the catalogue page, on a      *)
(* clock of their own.  The debounce timer fires when the clock reaches its *)
(* due time; an input event of that same instant may be handled before or   *)
(* after the timer's callback.                                              *)

\* Delay of the setTimeout in the input listener.
debounceDelay == 300

\* The search box is observed three times per debounce delay.
SearchStep == debounceDelay \div 3

\* The search box is followed for SearchHorizonSteps clock steps.
SearchHorizonSteps == 7

\* Input events and category clicks in one visit of the page.
MaxUserEvents == 3

\* Texts the search box can hold after an input event.
SearchValues == {"a", "ab"}

\* data-category of the category buttons.
Categories == {"all", "electronics"}

InitSearch ==
    /\ now = 0
    /\ checkoutRequestId = "none"
    /\ attempts = 0
    /\ pollTimer = "cleared"
    /\ nextFire = 0
    /\ inflight = {}
    /\ queries = <<>>
    /\ handled = NoData
    /\ overlapped = FALSE
    /\ calls = <<>>
    /\ cart = "stored"
    /\ overlayHidden = TRUE
    /\ payButtonDisabled = FALSE
    /\ redirects = {}
    /\ page = "catalogue"
    /\ sessions = <<>>
    /\ checkouts = {}
    /\ submits = 0
    /\ windowCheckoutRequestId = "none"
    /\ cancelled = {}
    /\ lastCheckout = NoCheckout
    /\ formError = "none"
    /\ requests = [site \in Sites |-> NoRequest]
    /\ NoProduct
    /\ NoSearch

searchFrame == <<closureVars, queries, calls, cart, overlayHidden,
                 payButtonDisabled, redirects, page, pageVars, requests,
                 productVars>>

clearTimeout_Noop(id) == searchTimers

\* clearTimeout(id): the pending timers without the one named id.
clearTimeout(id) == {t \in searchTimers : t.id # id}

\* The input listener of #search-input for an event that leaves the text
\* value in the box.
SearchInput(value) ==
    /\ page = "catalogue"
    /\ Len(inputEvents)
         + Cardinality({j \in 1..Len(filterRuns) : filterRuns[j].by = "category"})
         < MaxUserEvents
    /\ searchInput' = value
    /\ inputEvents' = Append(inputEvents, [at |-> now, value |-> value])
    /\ searchTimers' = clearTimeout(searchTimeout)
                          \cup {[id |-> Len(inputEvents) + 1,
                                 due |-> now + debounceDelay]}
    /\ searchTimeout' = Len(inputEvents) + 1
    /\ UNCHANGED <<now, searchFrame, searchQuery, activeCategory, filterRuns>>

\* The callback of the debounce timer t: searchQuery = e.target.value and
\* filterProducts().
SearchTimerFires(t) ==
    /\ page = "catalogue"
    /\ t \in searchTimers
    /\ now = t.due
    /\ searchTimers' = searchTimers \ {t}
    /\ searchQuery' = searchInput
    /\ filterRuns' = Append(filterRuns, [at |-> now, query |-> searchInput,
                                         by |-> "search", timer |-> t.id])
    /\ UNCHANGED <<now, searchFrame, searchInput, searchTimeout,
                   activeCategory, inputEvents>>

\* The click listener of a category button: activeCategory is set and
\* filterProducts() runs with the current searchQuery.
CategoryClick(category) ==
    /\ page = "catalogue"
    /\ Len(inputEvents)
         + Cardinality({j \in 1..Len(filterRuns) : filterRuns[j].by = "category"})
         < MaxUserEvents
    /\ activeCategory' = category
    /\ filterRuns' = Append(filterRuns, [at |-> now, query |-> searchQuery,
                                         by |-> "category", timer |-> 0])
    /\ UNCHANGED <<now, searchFrame, searchInput, searchQuery, searchTimeout,
                   searchTimers, inputEvents>>

\* Time passes on the catalogue page: no debounce timer is due.
AdvanceSearch ==
    /\ page = "catalogue"
    /\ now < SearchHorizonSteps * SearchStep
    /\ \A t \in searchTimers : now < t.due
    /\ now' = now + SearchStep
    /\ UNCHANGED <<searchFrame, searchVars>>

NextSearch ==
    \/ \E value \in SearchValues : SearchInput(value)
    \/ \E t \in searchTimers : SearchTimerFires(t)
    \/ \E category \in Categories : CategoryClick(category)
    \/ AdvanceSearch

SpecSearch == InitSearch /\ [][NextSearch]_vars

----------------------------------------------------------------------------
(* Vocabulary of the properties *)

Last(q) == q[Len(q)]

\* The filterProducts calls made by the debounce timer of input event i.
SearchRunsOf(i) ==
    {j \in 1..Len(filterRuns) :
        filterRuns[j].by = "search" /\ filterRuns[j].timer = i}

\* The debounce timer of input event i fired once, debounceDelay after the
\* event, and applied the value of that event.
RanOnceFor(i) ==
    /\ Cardinality(SearchRunsOf(i)) = 1
    /\ \A j \in SearchRunsOf(i) :
          /\ filterRuns[j].at = inputEvents[i].at + debounceDelay
          /\ filterRuns[j].query = inputEvents[i].value

\* The time for the debounce timer of input event i has come and gone.
DebouncePassed(i) ==
    \/ now > inputEvents[i].at + debounceDelay
    \/ /\ now = inputEvents[i].at + debounceDelay
       /\ \A t \in searchTimers : t.id # i

\* The text p consists of exactly nine decimal digits.
NineDigits(p) == Len(p) = 9 /\ \A i \in 1..Len(p) : p[i] \in Digits

\* The form contents the claim about invalid submissions speaks of: a phone
\* number that is not nine digits once trimmed, or terms not agreed to.
InvalidForms ==
    {f \in PhoneInputs \X BOOLEAN : ~NineDigits(Trim(f[1])) \/ ~f[2]}

\* The checkout response r is a 2xx response whose JSON body has a
\* checkout_request_id that is present and not empty.
ReturnedId(r) ==
    r.kind = "json" /\ r.checkout_request_id # "none" /\ r.checkout_request_id # ""

CallsOf(branches) == {i \in 1..Len(calls) : calls[i].branch \in branches}

TerminalBranches == {"SUCCESS", "FAILED", "CANCELLED"}

\* The response to attempt j was SUCCESS, FAILED or CANCELLED.
TerminalResponseTo(j) ==
    \E i \in CallsOf(TerminalBranches) : calls[i].tick = j

\* The response to attempt j has been handled and was not terminal.
NonTerminalResponseTo(j) ==
    j \in 1..attempts /\ j \notin inflight /\ page = "checkout" /\ ~TerminalResponseTo(j)

\* The outcome the session has reported to the user.
Outcome == IF calls = <<>> THEN "PENDING" ELSE Last(calls).branch

\* This step is the continuation of a tick handling a settled fetch.
HandlesResponse == handled' # handled

----------------------------------------------------------------------------
(* C1: in every execution of one poll session, also when a response arrives
   after later ticks have fired, at most one terminal callback
   (handlePaymentSuccess or handlePaymentFailure) is fired in total. *)
C1_AtMostOneCallback == Len(calls) <= 1

(* C2: if the timer keeps ticking and every status query issued eventually
   settles, the session eventually fires a terminal callback and its interval
   timer is eventually cleared. *)
C2_EventuallyTerminal == <>(calls # <<>> /\ pollTimer = "cleared")

C2_Witness ==
    /\ Len(calls) = 1
    /\ calls[1].branch = "TIMEOUT"
    /\ pollTimer = "cleared"
    /\ inflight = {}

(* C3: in every reachable state the attempt counter is between 0 and
   maxAttempts = 30, whatever the latency of the responses. *)
C3_AttemptsBounded == attempts \in 0..maxAttempts

(* C4: once a terminal outcome has been reported it never changes: a response
   arriving afterwards reports no other outcome and triggers none of the
   handlers' effects (cart clearing, redirect, pay-button reset). *)
C4_OutcomeFinal ==
    [][calls # <<>> =>
         /\ Outcome' = Outcome
         /\ redirects' \subseteq redirects
         /\ UNCHANGED <<calls, cart, payButtonDisabled, overlayHidden>>]_vars

(* C5: for every k <= 30, if the responses to attempts 1..k-1 are non-terminal
   and the response to attempt k is SUCCESS, handlePaymentSuccess fires
   exactly once, with that response's payload, and no status query is issued
   after attempt k. *)
C5_SuccessOnce ==
    \A i \in CallsOf({"SUCCESS"}) :
        LET k == calls[i].tick IN
        (k <= maxAttempts /\ \A j \in 1..(k - 1) : NonTerminalResponseTo(j)) =>
            /\ Cardinality(CallsOf({"SUCCESS"})) = 1
            /\ calls[i].data.seq = k
            /\ Len(queries) = k

(* C6: if the first 30 status responses are all non-terminal, the timeout
   callback fires exactly once and exactly 30 status queries have been issued
   in total. *)
C6_TimeoutOnce ==
    (\A j \in 1..maxAttempts : NonTerminalResponseTo(j)) =>
        /\ Cardinality(CallsOf({"TIMEOUT"})) = 1
        /\ Len(queries) = maxAttempts

(* C7 as stated: when the response to attempt k is FAILED or CANCELLED, the
   failure callback fires as soon as that response is handled, with the
   attempt counter equal to k, and the schedule is stopped. *)
C7_Original ==
    [][(HandlesResponse /\ handled'.status \in {"FAILED", "CANCELLED"}) =>
         /\ Len(calls') = Len(calls) + 1
         /\ Last(calls').fn = "handlePaymentFailure"
         /\ attempts' = handled'.seq
         /\ pollTimer' = "cleared"]_vars

(* C7 amended: when the response to attempt k is FAILED or CANCELLED, the
   failure callback fires in the step that handles the response, without any
   further tick and at the same clock value, and the schedule is stopped; the
   attempt counter is then at least k, and equal to k when no tick has fired
   while an earlier query was in flight. *)
C7_FailureImmediate ==
    [][(HandlesResponse /\ handled'.status \in {"FAILED", "CANCELLED"}) =>
         /\ Len(calls') = Len(calls) + 1
         /\ Last(calls').fn = "handlePaymentFailure"
         /\ Last(calls').tick = handled'.seq
         /\ Last(calls').at = now
         /\ UNCHANGED <<now, attempts, queries>>
         /\ attempts' >= handled'.seq
         /\ (~overlapped => attempts' = handled'.seq)
         /\ pollTimer' = "cleared"]_vars

\* FAILED on attempt 1 reported with attempts = 1, and a CANCELLED response to
\* attempt 1 that is handled after tick 2: reported with attempts = 2.
C7_Witness ==
    /\ Len(calls) = 1
    /\ calls[1].tick = 1
    /\ \/ calls[1].branch = "FAILED" /\ calls[1].attempts = 1
       \/ calls[1].branch = "CANCELLED" /\ calls[1].attempts = 2
    /\ pollTimer = "cleared"

(* C8 as stated: for k < 30, when the status query of attempt k fails (network
   error or non-2xx), no terminal callback is fired because of that attempt
   and the interval timer stays active, so attempt k+1 is issued at the next
   tick. *)
C8_Original ==
    [][(HandlesResponse /\ handled'.kind \in {"network", "http"}
          /\ handled'.seq < maxAttempts) =>
         /\ calls' = calls
         /\ pollTimer' = "active"]_vars

(* C8 amended: when a status query fails (network error or non-2xx) and the
   attempt counter is still below 30 at the time the failure is handled, no
   terminal callback is fired, the counter is not changed, and the interval
   timer is left as it was (active unless a terminal response handled earlier
   has cleared it) with its next fire time unchanged. *)
C8_ErrorSwallowed ==
    [][(HandlesResponse /\ handled'.kind \in {"network", "http"}
          /\ attempts < maxAttempts) =>
         UNCHANGED <<calls, pollTimer, nextFire, attempts, cart,
                     overlayHidden, payButtonDisabled, redirects>>]_vars

\* The query of attempt 5 failed, nothing was reported, and attempt 6 has
\* been issued one interval after attempt 5.
C8_Witness ==
    /\ handled.kind \in {"network", "http"}
    /\ handled.seq = 5
    /\ calls = <<>>
    /\ attempts = 6
    /\ inflight = {6}
    /\ queries[6].at = queries[5].at + pollInterval

(* C9 as stated: the k-th status query is issued (k-1)*2000 ms after
   pollPaymentStatus is called, the first one immediately at t = 0. *)
C9_Original ==
    \A k \in 1..Len(queries) : queries[k].at = (k - 1) * pollInterval

(* C9 amended: the k-th status query is issued k*2000 ms after
   pollPaymentStatus is called (the first at t = 2000, none at t = 0), and a
   callback made for attempt k fires no earlier than that; for responses
   [PENDING, PENDING, SUCCESS] the queries are issued at 2000, 4000 and
   6000 ms and the success callback fires at 6000 ms at the earliest. *)
C9_QueryTimes ==
    /\ \A k \in 1..Len(queries) : queries[k].at = k * pollInterval
    /\ Len(queries) = attempts
    /\ \A i \in 1..Len(calls) : calls[i].at >= calls[i].tick * pollInterval
    /\ (now < pollInterval => queries = <<>>)

C9_Witness ==
    /\ Len(calls) = 1
    /\ calls[1].branch = "SUCCESS"
    /\ calls[1].tick = 3
    /\ calls[1].at = 3 * pollInterval
    /\ Len(queries) = 3
    /\ ~overlapped

(* C10: if all 30 status responses are PENDING and each is handled before the
   next tick fires, the timeout callback is the only callback, it is fired
   by the tick of t = 60000 ms (the 30th, within one interval of it, when its
   response is handled), and no callback of any kind fires before
   t = 60000 ms. *)
C10_TimeoutAt60000 ==
    (~overlapped /\ CallsOf(TerminalBranches) = {}) =>
        /\ Len(calls) <= 1
        /\ (now < maxAttempts * pollInterval => calls = <<>>)
        /\ \A i \in 1..Len(calls) :
              /\ calls[i].branch = "TIMEOUT"
              /\ calls[i].msg = TimeoutMessage
              /\ calls[i].tick = maxAttempts
              /\ queries[calls[i].tick].at = maxAttempts * pollInterval
              /\ calls[i].at >= maxAttempts * pollInterval
              /\ calls[i].at <= (maxAttempts + 1) * pollInterval
              /\ Len(queries) = maxAttempts
        /\ (NonTerminalResponseTo(maxAttempts) => Len(calls) = 1)

C10_Witness ==
    /\ ~overlapped
    /\ Len(calls) = 1
    /\ calls[1].branch = "TIMEOUT"
    /\ calls[1].at = maxAttempts * pollInterval
    /\ handled.status = "PENDING"
    /\ Len(queries) = maxAttempts
    /\ pollTimer = "cleared"

(* C11: once the cancel-payment button has been clicked while a poll session
   was running, that session issues no further status query and calls no
   further handler. *)
C11_CancelHalts ==
    [][\A s \in cancelled :
          /\ queries' # queries => Last(queries').session # s
          /\ calls' # calls => Last(calls').tick[1] # s]_vars

(* C12: on the checkout page at most one interval timer created by
   pollPaymentStatus is active at any time. *)
C12_OneTimer == Cardinality(ActiveSessions) <= 1

(* C13: every terminal failure handled by the poller is presented through
   handlePaymentFailure and none is dropped: FAILED with the response's error
   text when it has a (non-empty) one and otherwise 'Payment was declined',
   CANCELLED with 'Payment was cancelled', budget exhaustion with the
   message telling the user to check the M-Pesa inbox; the call hides the
   overlay and re-enables the pay button. *)
C13_FailuresPresented ==
    [][HandlesResponse =>
         LET r == handled'
             presented(m) ==
                 /\ Len(calls') = Len(calls) + 1
                 /\ Last(calls').fn = "handlePaymentFailure"
                 /\ Last(calls').msg = m
                 /\ overlayHidden' /\ ~payButtonDisabled'
         IN /\ (r.kind = "json" /\ r.status = "FAILED") =>
                 presented(IF r.error \in {"none", ""}
                           THEN "Payment was declined" ELSE r.error)
            /\ (r.kind = "json" /\ r.status = "CANCELLED") =>
                 presented("Payment was cancelled")
            /\ ((r.kind # "json" \/ r.status \notin {"SUCCESS", "FAILED", "CANCELLED"})
                  /\ attempts >= maxAttempts) =>
                 presented("Payment confirmation timeout. Please check your M-Pesa inbox.")]_vars

C13_Witness ==
    /\ Len(calls) = 1
    /\ calls[1].branch = "FAILED"
    /\ calls[1].msg = "Insufficient funds"
    /\ handled.error = "Insufficient funds"
    /\ overlayHidden /\ ~payButtonDisabled

(* C14: pollPaymentStatus is called only by the step that handles a 2xx
   checkout response with a JSON body whose checkout_request_id is present
   and non-empty, and it is called with that identifier; the step that
   handles any other outcome of the checkout request starts no session,
   issues no query, hides the payment overlay and enables the pay button;
   every status query belongs to a session started in this way. *)
C14_PollOnlyAfterCheckout ==
    /\ [][/\ Len(sessions') # Len(sessions) =>
               /\ ReturnedId(lastCheckout')
               /\ Len(sessions') = Len(sessions) + 1
               /\ Last(sessions').requestId = lastCheckout'.checkout_request_id
               /\ Last(sessions').attempts = 0
          /\ lastCheckout' # NoCheckout /\ ~ReturnedId(lastCheckout') =>
               /\ sessions' = sessions
               /\ queries' = queries
               /\ overlayHidden'
               /\ ~payButtonDisabled']_vars
    /\ [](\A i \in 1..Len(queries) : queries[i].session \in SessionIds)

\* A checkout request answered 503 was abandoned before any session existed.
C14_Witness ==
    /\ lastCheckout.kind = "http"
    /\ lastCheckout.seq = 1
    /\ sessions = <<>>
    /\ queries = <<>>
    /\ overlayHidden
    /\ ~payButtonDisabled

(* C15: a request that is pending at any call site was sent at most
   TIMEOUT_MS ago. *)
C15_RequestsBounded ==
    \A site \in Sites :
        requests[site].pending => now - requests[site].sentAt <= TIMEOUT_MS

(* C16: a timer tick increments the attempt counter and issues a status query
   only if no terminal outcome has been reported and the counter is below
   maxAttempts; each such tick issues exactly one query, so the number of
   queries issued always equals the counter. *)
C16_TickGuarded ==
    [][(attempts' # attempts \/ queries' # queries) =>
         /\ calls = <<>>
         /\ attempts < maxAttempts
         /\ attempts' = attempts + 1
         /\ Len(queries') = Len(queries) + 1
         /\ Len(queries') = attempts']_vars

(* C17 as stated: a parsed status response is classified by its status field:
   exactly 'SUCCESS', 'FAILED' and 'CANCELLED' are terminal and any other
   value (including a missing status) fires no callback and leaves the
   schedule running. *)
C17_Original ==
    [][(HandlesResponse /\ handled'.kind = "json") =>
         IF handled'.status \in {"SUCCESS", "FAILED", "CANCELLED"}
         THEN /\ Len(calls') = Len(calls) + 1
              /\ Last(calls').branch = handled'.status
              /\ pollTimer' = "cleared"
         ELSE UNCHANGED <<calls, pollTimer>>]_vars

(* C17 amended: exactly 'SUCCESS', 'FAILED' and 'CANCELLED' are terminal
   (one callback of that outcome, schedule stopped); any other value,
   including a missing status, never fires the callback of a terminal status
   and, while the attempt counter is below 30, fires no callback at all and
   leaves the schedule as it was; with the counter at 30 or more it is
   reported as the timeout. *)
C17_Classification ==
    [][(HandlesResponse /\ handled'.kind = "json") =>
         IF handled'.status \in {"SUCCESS", "FAILED", "CANCELLED"}
         THEN /\ Len(calls') = Len(calls) + 1
              /\ Last(calls').branch = handled'.status
              /\ Last(calls').fn = (IF handled'.status = "SUCCESS"
                                    THEN "handlePaymentSuccess"
                                    ELSE "handlePaymentFailure")
              /\ pollTimer' = "cleared"
         ELSE IF attempts < maxAttempts
         THEN UNCHANGED <<calls, pollTimer, cart, overlayHidden,
                          payButtonDisabled, redirects>>
         ELSE /\ Len(calls') = Len(calls) + 1
              /\ Last(calls').branch = "TIMEOUT"
              /\ pollTimer' = "cleared"]_vars

\* A response whose status is the lower-case string 'success' was handled as
\* still pending: nothing reported, the schedule running.
C17_Witness ==
    /\ handled.kind = "json"
    /\ handled.status = "success"
    /\ calls = <<>>
    /\ pollTimer = "active"
    /\ attempts = handled.seq

(* C18 as stated, for a session in which every status query fails: the
   counter increases by one per tick and is never reset, and the timeout
   callback fires when the 30th attempt has failed, with no failure reported
   before that. *)
C18_Original ==
    /\ attempts = Len(queries)
    /\ (calls # <<>> => (attempts >= maxAttempts /\ maxAttempts \notin inflight))
    /\ ((attempts >= maxAttempts /\ maxAttempts \notin inflight) => calls # <<>>)

(* C18 amended, for a session in which every status query fails: the
   counter increases by one per tick and is never reset, nothing is reported
   before the 30th tick (t = 60000 ms), and the timeout callback fires as soon
   as a failure is handled with the counter at 30 or more: at the latest
   when the 30th attempt has failed, and earlier when the failure of an
   earlier attempt is handled after the 30th tick. *)
C18_OutageTimesOut ==
    /\ attempts = Len(queries)
    /\ \A k \in 1..Len(queries) : queries[k].at = k * pollInterval
    /\ (calls # <<>> => attempts >= maxAttempts)
    /\ \A i \in 1..Len(calls) :
          /\ calls[i].branch = "TIMEOUT"
          /\ calls[i].msg = TimeoutMessage
          /\ calls[i].attempts >= maxAttempts
          /\ calls[i].at >= maxAttempts * pollInterval
    /\ ((attempts >= maxAttempts /\ maxAttempts \notin inflight) => calls # <<>>)

C18_Witness ==
    /\ handled.kind \in {"network", "http"}
    /\ handled.seq = maxAttempts
    /\ Len(calls) = 1
    /\ calls[1].tick = maxAttempts
    /\ calls[1].branch = "TIMEOUT"
    /\ ~overlapped

(* C19: the request identifier of a poll session never changes once
   pollPaymentStatus has been called, and every status query carries the
   identifier of the session that issued it, whatever
   window.checkoutRequestId holds by then. *)
C19_RequestIdFixed ==
    /\ [][\A s \in SessionIds :
             /\ s \in 1..Len(sessions')
             /\ sessions'[s].requestId = sessions[s].requestId]_vars
    /\ [](\A i \in 1..Len(queries) :
             queries[i].request_id = sessions[queries[i].session].requestId)

\* The first session issued a query after a second initiatePayment had
\* overwritten window.checkoutRequestId.
C19_Witness ==
    /\ Len(sessions) > 1
    /\ windowCheckoutRequestId = sessions[Len(sessions)].requestId
    /\ windowCheckoutRequestId # sessions[1].requestId
    /\ sessions[Len(sessions)].attempts = 0
    /\ queries # <<>>
    /\ Last(queries).session = 1
    /\ Last(queries).at > sessions[Len(sessions)].nextFire - pollInterval
    /\ Last(queries).request_id = sessions[1].requestId

(* C20: ticks can overlap: the timer is not held back by a query that is
   still awaiting its response, so once a query has been in flight for more
   than the 2000 ms interval (the timer still active) a later tick has issued
   a newer query, and states with two or more queries in flight are
   reachable. *)
C20_TicksOverlap ==
    \A q \in inflight :
        (pollTimer = "active" /\ now > queries[q].at + pollInterval) =>
            /\ attempts > q
            /\ overlapped

C20_Witness ==
    /\ Cardinality(inflight) >= 2
    /\ \E q \in inflight : now > queries[q].at + pollInterval
    /\ pollTimer = "active"

(* C21: the value of the quantity input is a number that is at least the
   product's minimum order quantity, and no price-check request was issued
   for a quantity below it. *)
C21_QuantityFloor ==
    /\ quantityInput.kind = "int"
    /\ quantityInput.n >= EffectiveMoq
    /\ \A q \in priceChecks : q >= EffectiveMoq

(* C22: as long as no tick has fired while an earlier query of the session
   was still in flight, the session has issued at most maxAttempts queries
   and called at most one handler; the step that calls the handler clears
   the interval timer, no query is issued after it, and the handler has been
   called once the response to the last attempt of the budget is handled. *)
C22_SequentialSession ==
    /\ [](~overlapped =>
            /\ Len(queries) <= maxAttempts
            /\ Len(calls) <= 1
            /\ calls # <<>> => pollTimer = "cleared"
            /\ attempts = maxAttempts /\ inflight = {} => Len(calls) = 1)
    /\ [][~overlapped' =>
            /\ calls' # calls => pollTimer = "active" /\ pollTimer' = "cleared"
            /\ calls # <<>> => queries' = queries]_vars

\* Thirty queries, each answered before the next tick, ended in the timeout.
C22_Witness ==
    /\ ~overlapped
    /\ Len(queries) = maxAttempts
    /\ inflight = {}
    /\ Len(calls) = 1
    /\ Last(calls).branch = "TIMEOUT"
    /\ pollTimer = "cleared"

(* C23: the step that handles the response to attempt maxAttempts calls
   exactly one handler: for a SUCCESS, FAILED or CANCELLED status the handler
   of that outcome and not the timeout failure; for a failed query (network
   error, non-2xx status) the timeout failure. *)
C23_LastAttempt ==
    [][HandlesResponse /\ handled'.seq = maxAttempts =>
         /\ handled'.kind = "json" /\ handled'.status \in TerminalBranches =>
              /\ Len(calls') = Len(calls) + 1
              /\ Last(calls').branch = handled'.status
              /\ Last(calls').tick = maxAttempts
              /\ Last(calls').msg # TimeoutMessage
              /\ Last(calls').fn = IF handled'.status = "SUCCESS"
                                   THEN "handlePaymentSuccess"
                                   ELSE "handlePaymentFailure"
         /\ handled'.kind # "json" =>
              /\ Len(calls') = Len(calls) + 1
              /\ Last(calls').branch = "TIMEOUT"
              /\ Last(calls').tick = maxAttempts
              /\ Last(calls').fn = "handlePaymentFailure"
              /\ Last(calls').msg = TimeoutMessage]_vars

\* The payment was confirmed by the response to the last attempt.
C23_Witness ==
    /\ attempts = maxAttempts
    /\ Len(calls) = 1
    /\ Last(calls).tick = maxAttempts
    /\ Last(calls).branch = "SUCCESS"
    /\ handled.seq = maxAttempts

(* C24: the stored cart changes only in a step that calls
   handlePaymentSuccess, which removes it; every other step (a failure
   handler call for FAILED, CANCELLED or the timeout, a failed status query,
   a failed checkout request, a click on the cancel button) leaves it as it
   was. *)
C24_CartRemovedBySuccessOnly ==
    [][/\ cart' # cart =>
            /\ cart' = "removed"
            /\ Len(calls') = Len(calls) + 1
            /\ Last(calls').fn = "handlePaymentSuccess"
       /\ (Len(calls') = Len(calls) + 1 /\ Last(calls').fn = "handlePaymentFailure")
            => cart' = cart
       /\ (lastCheckout' # lastCheckout /\ lastCheckout' # NoCheckout)
            => cart' = cart
       /\ cancelled' # cancelled => cart' = cart]_vars

\* The cart was still stored after a click on the cancel button and was
\* removed by the SUCCESS reported afterwards.
C24_Witness ==
    /\ cart = "removed"
    /\ cancelled # {}
    /\ Len(calls) = 1
    /\ Last(calls).fn = "handlePaymentSuccess"
    /\ Last(calls).branch = "SUCCESS"

(* C25: a submit of the payment form whose phone number (surrounding blanks
   removed) is not exactly nine digits, or whose terms checkbox is not
   checked, sends no checkout request, starts no poll session, leaves the
   payment overlay hidden and leaves the pay button enabled. *)
C25_InvalidFormSendsNothing ==
    \A f \in InvalidForms :
        ~ENABLED (/\ Submit(f[1], f[2])
                  /\ ~(/\ UNCHANGED <<checkouts, submits, sessions, queries,
                                      windowCheckoutRequestId>>
                       /\ overlayHidden /\ overlayHidden'
                       /\ ~payButtonDisabled'
                       /\ formError' # "none"))

\* An invalid phone number was rejected on the untouched page.
C25_Witness ==
    /\ formError = "phone"
    /\ submits = 0
    /\ checkouts = {}
    /\ sessions = <<>>
    /\ overlayHidden
    /\ ~payButtonDisabled

(* C26: the pay button, disabled by a valid submit, is enabled again only by
   a click on the cancel button, by the abort of the checkout request, or by
   the failure or timeout callback of the session that submit started (the
   latest one); every handlePaymentFailure call enables the button and hides
   the overlay; once handlePaymentSuccess has been called the button stays
   disabled. *)
C26_ButtonDisabledInterval ==
    /\ [][/\ payButtonDisabled /\ ~payButtonDisabled' =>
               \/ calls' = calls
               \/ /\ Last(calls').fn = "handlePaymentFailure"
                  /\ Last(calls').tick[1] = Len(sessions)
          /\ (Len(calls') = Len(calls) + 1
                /\ Last(calls').fn = "handlePaymentFailure") =>
               ~payButtonDisabled' /\ overlayHidden'
          /\ (\E i \in 1..Len(calls) : calls[i].fn = "handlePaymentSuccess") =>
               payButtonDisabled']_vars

(* C27 as stated: at most one debounce timer is pending; an input event
   followed by another less than 300 ms later never has its value applied;
   an input event that ends its burst (the next event, if any, comes 300 ms
   later or more) makes filterProducts run exactly once, 300 ms after it,
   with searchQuery set to its value. *)
C27_Original ==
    /\ Cardinality(searchTimers) <= 1
    /\ \A i \in 1..Len(inputEvents) :
          IF i < Len(inputEvents)
               /\ inputEvents[i + 1].at - inputEvents[i].at < debounceDelay
          THEN SearchRunsOf(i) = {}
          ELSE DebouncePassed(i) => RanOnceFor(i)

(* C27 amended: at most one debounce timer is pending; an input event
   followed by another less than 300 ms later never has its value applied;
   an input event followed by no other for more than 300 ms makes
   filterProducts run exactly once, 300 ms after it, with searchQuery set to
   its value; when the next event comes exactly 300 ms later, either the
   timer fired first, once and with the earlier value, or the event was
   handled first and cancelled it.  Every run of the debounce callback
   belongs to an input event in one of these ways. *)
C27_Debounce ==
    /\ Cardinality(searchTimers) <= 1
    /\ \A i \in 1..Len(inputEvents) :
          IF i < Len(inputEvents)
               /\ inputEvents[i + 1].at - inputEvents[i].at < debounceDelay
          THEN SearchRunsOf(i) = {}
          ELSE IF i < Len(inputEvents)
                    /\ inputEvents[i + 1].at - inputEvents[i].at = debounceDelay
          THEN SearchRunsOf(i) = {} \/ RanOnceFor(i)
          ELSE DebouncePassed(i) => RanOnceFor(i)
    /\ \A j \in 1..Len(filterRuns) :
          filterRuns[j].by = "search" =>
              filterRuns[j].timer \in 1..Len(inputEvents)
    /\ searchQuery # "" =>
          \E j \in 1..Len(filterRuns) :
              filterRuns[j].by = "search" /\ filterRuns[j].query = searchQuery

\* A burst of two events 200 ms apart was applied once, with the second
\* value, and the first value never reached searchQuery.
C27_Witness ==
    /\ Len(inputEvents) = 2
    /\ inputEvents[2].at - inputEvents[1].at = 2 * SearchStep
    /\ inputEvents[1].value # inputEvents[2].value
    /\ SearchRunsOf(1) = {}
    /\ RanOnceFor(2)
    /\ searchQuery = inputEvents[2].value
    /\ searchTimers = {}

====
